---- MODULE Spec2Model ----
(***************************************************************************)
(* Model of api/v1alpha1/task.go (tinkerbell rufio): the Task record, the  *)
(* Action validation marker, and the SetCondition / HasCondition methods   *)
(* with the WithTaskConditionMessage option.                               *)
(*                                                                         *)
(* Go pointers (to PowerAction, metav1.Time, ...) are sequences of length *)
(* at most one: <<>> is nil, <<v>> points at v.                            *)
(***************************************************************************)
EXTENDS Integers, Sequences, FiniteSets, TLC

\* ---------------------------------------------------------------- bounds
\* longest option list passed to one SetCondition call
MaxOpts == 2
\* longest status.conditions list a Task is loaded with from storage
MaxLoaded == 2

\* ------------------------------------------------------------- constants
TaskCompleted == "Completed"
TaskFailed == "Failed"
\* TaskConditionType is an open string type: one value beyond the two constants
ConditionTypes == {TaskCompleted, TaskFailed, "Custom"}
\* ConditionStatus values a caller passes
ConditionStatuses == {"True", "False"}
\* zero value of a Go string (an unset Status or Message)
Zero == ""
Messages == {Zero, "m1"}
\* +kubebuilder:validation:Enum on PowerAction
PowerActions == {"on", "off", "soft", "status", "cycle", "reset"}
\* +kubebuilder:validation:MaxProperties on Action
MaxProperties == 1
Nil == <<>>

\* ------------------------------------------------------------ data types
TaskCondition == [Type : ConditionTypes, Status : ConditionStatuses, Message : Messages]
OneTimeBootDeviceAction == [Devices : {<<"disk">>}, EFIBoot : {FALSE}]
\* one representative value behind each pointer: validation counts properties
Action == [PowerAction : {Nil} \cup {<<p>> : p \in {"on"} \cap PowerActions},
           OneTimeBootDeviceAction : {Nil} \cup {<<b>> : b \in OneTimeBootDeviceAction}]
Times == {Nil, <<1>>}

\* number of properties of the serialised Action object: both fields are
\* omitempty pointers, so a property is present exactly when the pointer is set
NumProperties(a) ==
    (IF a.PowerAction # Nil THEN 1 ELSE 0) + (IF a.OneTimeBootDeviceAction # Nil THEN 1 ELSE 0)

\* the validation the Action type carries
ValidAction(a) == NumProperties(a) <= MaxProperties

\* option lists: each option is WithTaskConditionMessage(m), written as m
RECURSIVE SeqsUpTo(_, _)
SeqsUpTo(S, n) ==
    IF n = 0 THEN {<<>>}
    ELSE LET r == SeqsUpTo(S, n - 1) IN r \cup {Append(s, x) : s \in r, x \in S}
OptLists == SeqsUpTo(Messages, MaxOpts)

\* ----------------------------------------------------------------- state
VARIABLES
    t,          \* the Task: [Spec, Status]
    lastOp,     \* the most recent call on t and its result
    firstSeen,  \* history: condition types in order of their first SetCondition
    lastStatus, \* history: per type, <<status>> of the most recent SetCondition
    lastMsg     \* history: per type, <<m>> of the most recent message option

vars == <<t, lastOp, firstSeen, lastStatus, lastMsg>>

Conditions == t.Status.Conditions
Types(conds) == [i \in 1..Len(conds) |-> conds[i].Type]
Range(s) == {s[i] : i \in 1..Len(s)}
CountOf(conds, cType) == Cardinality({i \in 1..Len(conds) : conds[i].Type = cType})
Others(conds, cType) == SelectSeq(conds, LAMBDA c : c.Type # cType)

\* ------------------------------------------------------------- functions
\* WithTaskConditionMessage(m) applied to condition c
WithTaskConditionMessage(m, c) == [c EXCEPT !.Message = m]

\* for _, opt := range opts { opt(condition) }
RECURSIVE ApplyOpts(_, _)
ApplyOptsClear(c, opts) ==
    [c EXCEPT !.Message = IF opts = <<>> THEN Zero ELSE opts[Len(opts)]]
ApplyOpts(c, opts) ==
    IF opts = <<>> THEN c
    ELSE ApplyOpts(WithTaskConditionMessage(Head(opts), c), Tail(opts))

\* the search loop of SetCondition: index of the first entry of type cType,
\* 0 when there is none (condition == nil)
FindConditionNone(conds, cType) == 0
FindConditionLast(conds, cType) ==
    LET m == {i \in 1..Len(conds) : conds[i].Type = cType}
    IN IF m = {} THEN 0 ELSE CHOOSE i \in m : \A j \in m : j <= i
FindCondition(conds, cType) ==
    LET m == {i \in 1..Len(conds) : conds[i].Type = cType}
    IN IF m = {} THEN 0 ELSE CHOOSE i \in m : \A j \in m : i <= j

\* condition.Status = status; then the options, on the entry at index i
UpdateAll(conds, i, status, opts) ==
    [j \in 1..Len(conds) |-> ApplyOpts([conds[j] EXCEPT !.Status = status], opts)]
UpdateAt(conds, i, status, opts) ==
    [conds EXCEPT ![i] = ApplyOpts([@ EXCEPT !.Status = status], opts)]

\* func (t *Task) SetCondition(cType, status, opts...)
SetConditionMove(task, cType, status, opts) ==
    LET old == task.Status.Conditions
        i == FindCondition(old, cType)
        c == IF i = 0 THEN [Type |-> cType, Status |-> Zero, Message |-> Zero] ELSE old[i]
        rest == IF i = 0 THEN old ELSE SubSeq(old, 1, i - 1) \o SubSeq(old, i + 1, Len(old))
        conds == Append(rest, c)
    IN [task EXCEPT !.Status.Conditions = UpdateAt(conds, Len(conds), status, opts)]
SetConditionStamp(task, cType, status, opts) ==
    LET old == task.Status.Conditions
        i == FindCondition(old, cType)
        conds == IF i = 0
                 THEN Append(old, [Type |-> cType, Status |-> Zero, Message |-> Zero])
                 ELSE old
        k == IF i = 0 THEN Len(conds) ELSE i
    IN [task EXCEPT !.Status.Conditions = UpdateAt(conds, k, status, opts),
                    !.Status.CompletionTime = <<1>>]
SetCondition(task, cType, status, opts) ==
    LET old == task.Status.Conditions
        i == FindCondition(old, cType)
        conds == IF i = 0
                 THEN Append(old, [Type |-> cType, Status |-> Zero, Message |-> Zero])
                 ELSE old
        k == IF i = 0 THEN Len(conds) ELSE i
    IN [task EXCEPT !.Status.Conditions = UpdateAt(conds, k, status, opts)]

\* func (t *Task) HasCondition(cType, cStatus) bool
HasConditionAbsentTrue(task, cType, cStatus) ==
    LET conds == task.Status.Conditions
        m == {i \in 1..Len(conds) : conds[i].Type = cType}
    IN IF m = {} THEN TRUE
       ELSE conds[CHOOSE i \in m : \A j \in m : i <= j].Status = cStatus
HasCondition(task, cType, cStatus) ==
    LET conds == task.Status.Conditions
        m == {i \in 1..Len(conds) : conds[i].Type = cType}
    IN IF m = {} THEN FALSE
       ELSE conds[CHOOSE i \in m : \A j \in m : i <= j].Status = cStatus

\* ------------------------------------------------------------------ Init
NoOp == [op |-> "none", cType |-> Zero, status |-> Zero, opts |-> <<>>,
         found |-> FALSE, again |-> FALSE, ret |-> FALSE]
NoHistory ==
    /\ lastOp = NoOp
    /\ firstSeen = <<>>
    /\ lastStatus = [c \in ConditionTypes |-> Nil]
    /\ lastMsg = [c \in ConditionTypes |-> Nil]

\* a Task as the driver creates it: an admitted Action, an empty status
Init ==
    /\ \E a \in {x \in Action : ValidAction(x)} :
         t = [Spec |-> [Task |-> a],
              Status |-> [Conditions |-> <<>>, StartTime |-> Nil, CompletionTime |-> Nil]]
    /\ NoHistory

\* a Task read back from storage: any admitted Action, any status
InitAny ==
    /\ \E a \in {x \in Action : ValidAction(x)}, cs \in SeqsUpTo(TaskCondition, MaxLoaded),
          st \in Times, ct \in Times :
         t = [Spec |-> [Task |-> a],
              Status |-> [Conditions |-> cs, StartTime |-> st, CompletionTime |-> ct]]
    /\ NoHistory

\* --------------------------------------------------------------- actions
SetConditionCall(cType, status, opts) ==
    /\ t' = SetCondition(t, cType, status, opts)
    /\ lastOp' = [op |-> "Set", cType |-> cType, status |-> status, opts |-> opts,
                  found |-> CountOf(Conditions, cType) > 0,
                  again |-> /\ lastOp.op = "Set"
                            /\ lastOp.cType = cType
                            /\ lastOp.status = status
                            /\ lastOp.opts = opts,
                  ret |-> FALSE]
    /\ firstSeen' = IF cType \in Range(firstSeen) THEN firstSeen ELSE Append(firstSeen, cType)
    /\ lastStatus' = [lastStatus EXCEPT ![cType] = <<status>>]
    /\ lastMsg' = IF opts = <<>> THEN lastMsg
                  ELSE [lastMsg EXCEPT ![cType] = <<opts[Len(opts)]>>]

HasConditionCall(cType, cStatus) ==
    /\ lastOp' = [op |-> "Has", cType |-> cType, status |-> cStatus, opts |-> <<>>,
                  found |-> CountOf(Conditions, cType) > 0,
                  again |-> FALSE, ret |-> HasCondition(t, cType, cStatus)]
    /\ UNCHANGED <<t, firstSeen, lastStatus, lastMsg>>

Next ==
    \/ \E cType \in ConditionTypes, status \in ConditionStatuses, opts \in OptLists :
         SetConditionCall(cType, status, opts)
    \/ \E cType \in ConditionTypes, cStatus \in ConditionStatuses :
         HasConditionCall(cType, cStatus)

Spec == Init /\ [][Next]_vars

\* one call applied to a Task read back from storage
NextAny == lastOp.op = "none" /\ Next
SpecAny == InitAny /\ [][NextAny]_vars

\* ---------------------------------------------------------------- claims
\* the first entry of type cType in conds (there is one)
FirstOf(conds, cType) ==
    conds[CHOOSE i \in 1..Len(conds) :
            /\ conds[i].Type = cType
            /\ \A j \in 1..(i - 1) : conds[j].Type # cType]
Present(conds) == {conds[i].Type : i \in 1..Len(conds)}

\* C1: from an empty status, status.conditions never holds two entries of
\* one type, and the type of the last SetCondition call has exactly one entry.
C1_UniqueTypes ==
    /\ \A c \in ConditionTypes : CountOf(Conditions, c) <= 1
    /\ lastOp.op = "Set" => CountOf(Conditions, lastOp.cType) = 1
\* a type set a second time, by a call that differs from the one before it
C1_Witness ==
    /\ lastOp.op = "Set" /\ lastOp.found /\ ~lastOp.again
    /\ CountOf(Conditions, lastOp.cType) = 1
    /\ Len(Conditions) >= 2

\* C2: from an empty status, HasCondition(T, S) is true exactly when T has
\* been set and the status of the most recent SetCondition for T is S; the
\* value a HasCondition call returned agrees with that.
C2_HasIffLastSet ==
    /\ \A c \in ConditionTypes, s \in ConditionStatuses :
         HasCondition(t, c, s) <=> (lastStatus[c] = <<s>>)
    /\ lastOp.op = "Has" => (lastOp.ret <=> (lastStatus[lastOp.cType] = <<lastOp.status>>))
\* a query answered false for a type never set, beside a type that was set
C2_Witness ==
    /\ lastOp.op = "Has" /\ ~lastOp.ret
    /\ lastStatus[lastOp.cType] = Nil
    /\ \E c \in ConditionTypes : lastStatus[c] # Nil /\ HasCondition(t, c, lastStatus[c][1])

\* C3: a SetCondition call for type T1 leaves the entries of every other
\* type, and their relative order, as they were.
C3_OtherTypesUntouched ==
    [][lastOp'.op = "Set" =>
         Others(t'.Status.Conditions, lastOp'.cType) = Others(Conditions, lastOp'.cType)]_vars
\* the middle entry of three was the one updated
C3_Witness ==
    /\ lastOp.op = "Set" /\ lastOp.found
    /\ Len(Conditions) = 3
    /\ Conditions[2].Type = lastOp.cType

\* C4 as stated: whatever the prior sequence, after SetCondition(T, S, opts)
\* there is exactly one entry of type T, with Status S and the given message.
C4_ExactlyOneAnyPrior ==
    lastOp.op = "Set" =>
        /\ CountOf(Conditions, lastOp.cType) = 1
        /\ FirstOf(Conditions, lastOp.cType).Status = lastOp.status
        /\ lastOp.opts # <<>> =>
             FirstOf(Conditions, lastOp.cType).Message = lastOp.opts[Len(lastOp.opts)]
\* C4 amended: after SetCondition(T, S, opts) the first entry of type T has
\* Status S and the message of the last message option when one was given;
\* the number of entries of type T is 1 when the prior sequence held at most
\* one, and is otherwise what it was (entries already duplicated stay).
C4_FirstEntrySet ==
    [][lastOp'.op = "Set" =>
         LET T == lastOp'.cType
             after == t'.Status.Conditions
         IN /\ CountOf(after, T) = (IF CountOf(Conditions, T) = 0 THEN 1
                                    ELSE CountOf(Conditions, T))
            /\ FirstOf(after, T).Status = lastOp'.status
            /\ lastOp'.opts # <<>> =>
                 FirstOf(after, T).Message = lastOp'.opts[Len(lastOp'.opts)]]_vars
\* a call on a type the loaded sequence held twice, with differing entries
C4_Witness ==
    /\ lastOp.op = "Set" /\ lastOp.opts # <<>>
    /\ Len(Conditions) = 2
    /\ CountOf(Conditions, lastOp.cType) = 2
    /\ Conditions[1].Status = lastOp.status
    /\ Conditions[2].Status # lastOp.status

\* C5: the entry of a type carries the message of the most recent message
\* option given for that type, also after later SetCondition calls on the
\* type that give none; such a call still sets the Status.
C5_MessageKept ==
    /\ \A c \in ConditionTypes :
         lastMsg[c] # Nil =>
            /\ CountOf(Conditions, c) >= 1
            /\ FirstOf(Conditions, c).Message = lastMsg[c][1]
    /\ lastOp.op = "Set" => FirstOf(Conditions, lastOp.cType).Status = lastOp.status
\* a call without options on a type whose message was given earlier
C5_Witness ==
    /\ lastOp.op = "Set" /\ lastOp.opts = <<>> /\ lastOp.found
    /\ lastMsg[lastOp.cType] = <<"m1">>
    /\ FirstOf(Conditions, lastOp.cType).Message = "m1"
    /\ Len(Conditions) >= 2

\* C6: from an empty status, the types of status.conditions are in the order
\* of their first SetCondition; a call for a present type keeps every
\* position, a call for an absent type appends at the end.
C6_FirstSetOrder ==
    /\ [](Types(Conditions) = firstSeen)
    /\ [][lastOp'.op = "Set" =>
            IF lastOp'.cType \in Present(Conditions)
            THEN Types(t'.Status.Conditions) = Types(Conditions)
            ELSE /\ Len(t'.Status.Conditions) = Len(Conditions) + 1
                 /\ SubSeq(t'.Status.Conditions, 1, Len(Conditions)) = Conditions
                 /\ t'.Status.Conditions[Len(Conditions) + 1].Type = lastOp'.cType]_vars
\* the first of three entries was updated after the other two were added
C6_Witness ==
    /\ lastOp.op = "Set" /\ lastOp.found
    /\ Len(Conditions) = 3
    /\ Conditions[1].Type = lastOp.cType
    /\ firstSeen[1] = lastOp.cType

\* C7: a SetCondition call that repeats the call just before it (same type,
\* status and options) leaves the Task exactly as it was.
C7_Idempotent ==
    [][(lastOp'.op = "Set" /\ lastOp'.again) => t' = t]_vars
\* the same call, with a message option, made twice in a row
C7_Witness ==
    /\ lastOp.op = "Set" /\ lastOp.again
    /\ lastOp.opts # <<>>
    /\ Len(Conditions) >= 2

\* C8 as stated: an admitted Action has exactly one variant populated.
C8_ExactlyOneVariant ==
    NumProperties(t.Spec.Task) = 1

\* C9: no call changes the spec, startTime or completionTime; HasCondition
\* changes nothing of the Task.
C9_OnlyConditionsChange ==
    [][/\ t'.Spec = t.Spec
       /\ t'.Status.StartTime = t.Status.StartTime
       /\ t'.Status.CompletionTime = t.Status.CompletionTime
       /\ lastOp'.op = "Has" => t' = t]_vars
\* a failure was recorded and completionTime is still unset
C9_Witness ==
    /\ lastOp.op = "Set" /\ lastOp.cType = TaskFailed /\ lastOp.status = "True"
    /\ HasCondition(t, TaskFailed, "True")
    /\ t.Status.CompletionTime = Nil

\* C10: from an empty status, the number of entries is the number of distinct
\* types passed to SetCondition; no call removes a type or shortens the
\* sequence, and SetCondition lengthens it by one exactly when its type was
\* absent.
C10_NeverRemoved ==
    /\ [](Len(Conditions) = Cardinality(Range(firstSeen)))
    /\ [][/\ Present(Conditions) \subseteq Present(t'.Status.Conditions)
          /\ Len(t'.Status.Conditions) >= Len(Conditions)
          /\ lastOp'.op = "Has" => Len(t'.Status.Conditions) = Len(Conditions)
          /\ lastOp'.op = "Set" =>
               Len(t'.Status.Conditions) =
                 Len(Conditions) + (IF lastOp'.cType \in Present(Conditions) THEN 0 ELSE 1)]_vars
\* all three types present, the last call a query
C10_Witness ==
    /\ Len(Conditions) = 3
    /\ Cardinality(Range(firstSeen)) = 3
    /\ lastOp.op = "Has"

====
